---- MODULE Spec2Model ----
(***************************************************************************)
(* A model of the simulated exchange engine of the trading bot:            *)
(*   - ManagerPosition   (src/agents/manager_position.py)                  *)
(*   - Fee.commission    (src/const/const.py)                              *)
(*   - ClientSimulation  (src/agents/client_simulation.py)                 *)
(*                                                                         *)
(* Arithmetic.  The Python code computes on floats; the model computes the *)
(* same expressions exactly, on scaled integers (binary64 rounding is not  *)
(* modelled):                                                              *)
(*   - a size or quantity is a whole number n (n units of size 1.0); for   *)
(*     whole numbers n <= 0.0000000001 is n <= 0, so the literal           *)
(*     0.0000000001 of open is Epsilon = 0;                                *)
(*   - a price is a whole number;                                          *)
(*   - money (amount, commission, balance, pnl, capital) is a whole number *)
(*     of 1/RateDen (0.0001), so that the fee rate                         *)
(*     Fee.Taker = 0.0005 = RateNum / RateDen divides every amount         *)
(*     exactly: the balance 10000.0 is Mul(1, 10000) = 100000000.          *)
(***************************************************************************)
EXTENDS Integers, Sequences, FiniteSets, TLC

\* Fee.Taker = 0.0005 = RateNum / RateDen
RateNum == 5
RateDen == 10000

\* the literal 0.0000000001 of ManagerPosition.open, for whole sizes
Epsilon == 0

\* ------------------------------------------------------------- bounds
MaxPrice == 2       \* prices passed to ManagerPosition are -MaxNegPrice..MaxPrice
MaxNegPrice == 1
MaxSize == 2        \* position sizes passed to open are 0..MaxSize
MaxCalls == 3       \* calls made on one ManagerPosition, or on one ClientSimulation

Prices == (0 - MaxNegPrice)..MaxPrice
Sizes == 0..MaxSize
Sides == {1, -1}

\* size * price as money
Mul(size, price) == size * price * RateDen

\* Fee.commission charging the maker rate Fee.Maker = 0.0002 in place of Taker
commission_maker(amount) == (amount * 2) \div RateDen

\* Fee.commission(amount): amount * Fee.Taker
commission(amount) == (amount * RateNum) \div RateDen

\* -------------------------------------------------------------- state
VARIABLES
    position,   \* the ManagerPosition object
    balance,    \* the balance the caller feeds to open/close: the last one returned
    ret,        \* the last call made on the position: arguments and returned tuple
    client,     \* the ClientSimulation object: balance, positions, orders, trades, market_prices
    reply,      \* the last call made on the client: arguments and returned value
    ncalls,     \* number of calls made so far (on the position, or on the client)
    thread,     \* per driver thread: where it is in its place_market_order call, and its locals
    cache,      \* one cache file of CacheFeatureFile, and the set and get calls in progress on it
    decision    \* the last final_action call: its arguments and the dict it returned

posVars == <<position, balance, ret>>
simVars == <<client, reply>>
vars == <<position, balance, ret, ncalls, client, reply, thread, cache,
          decision>>

\* ------------------------------------------------------ ManagerPosition
\* ManagerPosition.__init__ with its default arguments
ManagerPosition ==
    [side |-> 0, size |-> 0, entry_price |-> 0, unrealized_pnl |-> 0,
     holding_time |-> 0, idle_time |-> 0, capital |-> 0,
     max_profit |-> 0, max_loss |-> 0]

\* ManagerPosition.reset
reset(self) ==
    [self EXCEPT !.side = 0, !.size = 0, !.entry_price = 0, !.unrealized_pnl = 0,
                 !.holding_time = 0, !.idle_time = 0, !.capital = 0,
                 !.max_profit = 0, !.max_loss = 0]

\* ManagerPosition.update
update(self, current_price) ==
    IF self.side = 0
    THEN [self EXCEPT !.size = 0, !.entry_price = 0, !.unrealized_pnl = 0,
                      !.capital = 0, !.holding_time = 0,
                      !.idle_time = self.idle_time + 1]
    ELSE LET pnl == IF self.side = 1
                    THEN Mul(self.size, current_price - self.entry_price)
                    ELSE Mul(self.size, self.entry_price - current_price)
         IN  [self EXCEPT !.idle_time = 0,
                          !.unrealized_pnl = pnl,
                          !.holding_time = self.holding_time + 1,
                          !.max_profit = IF pnl > self.max_profit THEN pnl
                                         ELSE self.max_profit,
                          !.max_loss = IF pnl > self.max_profit THEN self.max_loss
                                       ELSE IF pnl < self.max_loss THEN pnl
                                       ELSE self.max_loss]

\* open without the balance check of line 92
open_nocheck(self, current_price, position_size, bal, side) ==
    LET amount == Mul(position_size, current_price)
        fee == commission(amount)
    IN  IF position_size <= Epsilon
        THEN [ok |-> FALSE, balance |-> bal, self |-> self]
        ELSE [ok |-> TRUE,
              balance |-> bal - fee - amount,
              self |-> [self EXCEPT !.side = side, !.size = position_size,
                                    !.entry_price = current_price,
                                    !.capital = amount + fee,
                                    !.unrealized_pnl = 0, !.holding_time = 1,
                                    !.idle_time = 0, !.max_profit = 0,
                                    !.max_loss = 0]]

\* open that checks the balance after it has written the position
open_partial(self, current_price, position_size, bal, side) ==
    LET amount == Mul(position_size, current_price)
        fee == commission(amount)
        written == [self EXCEPT !.side = side, !.size = position_size,
                                !.entry_price = current_price,
                                !.capital = amount + fee,
                                !.unrealized_pnl = 0, !.holding_time = 1,
                                !.idle_time = 0, !.max_profit = 0,
                                !.max_loss = 0]
    IN  IF position_size <= Epsilon
        THEN [ok |-> FALSE, balance |-> bal, self |-> self]
        ELSE IF bal < fee + amount
        THEN [ok |-> FALSE, balance |-> bal, self |-> written]
        ELSE [ok |-> TRUE, balance |-> bal - fee - amount, self |-> written]

\* ManagerPosition.open: the returned (ok, balance) and the object afterwards
open(self, current_price, position_size, bal, side) ==
    IF position_size <= Epsilon
    THEN [ok |-> FALSE, balance |-> bal, self |-> self]
    ELSE LET amount == Mul(position_size, current_price)
             fee == commission(amount)
         IN  IF bal < fee + amount
             THEN [ok |-> FALSE, balance |-> bal, self |-> self]
             ELSE [ok |-> TRUE,
                   balance |-> bal - fee - amount,
                   self |-> [self EXCEPT !.side = side,
                                         !.size = position_size,
                                         !.entry_price = current_price,
                                         !.capital = amount + fee,
                                         !.unrealized_pnl = 0,
                                         !.holding_time = 1,
                                         !.idle_time = 0,
                                         !.max_profit = 0,
                                         !.max_loss = 0]]

\* close that reports the pnl net of the closing commission
close_netpnl(self, current_price, bal) ==
    LET amount == Mul(self.size, current_price)
        pnl == IF self.side = 1
               THEN Mul(self.size, current_price - self.entry_price)
               ELSE Mul(self.size, self.entry_price - current_price)
        fee == commission(amount)
        bal1 == bal + amount - fee
        bal2 == IF bal1 < 0 THEN 0 ELSE bal1
    IN  [realized_pnl |-> IF bal1 < 0 THEN 0 - bal2 ELSE pnl - fee,
         balance |-> bal2,
         self |-> [self EXCEPT !.side = 0, !.size = 0, !.entry_price = 0,
                               !.unrealized_pnl = 0, !.capital = 0,
                               !.holding_time = 0, !.idle_time = 1,
                               !.max_profit = 0, !.max_loss = 0]]

\* close without `self.holding_time = 0`
close_keepholding(self, current_price, bal) ==
    LET amount == Mul(self.size, current_price)
        pnl == IF self.side = 1
               THEN Mul(self.size, current_price - self.entry_price)
               ELSE Mul(self.size, self.entry_price - current_price)
        fee == commission(amount)
        bal1 == bal + amount - fee
        bal2 == IF bal1 < 0 THEN 0 ELSE bal1
    IN  [realized_pnl |-> IF bal1 < 0 THEN 0 - bal2 ELSE pnl,
         balance |-> bal2,
         self |-> [self EXCEPT !.side = 0, !.size = 0, !.entry_price = 0,
                               !.unrealized_pnl = 0, !.capital = 0,
                               !.idle_time = 1,
                               !.max_profit = 0, !.max_loss = 0]]

\* close whose floor test leaves out the amount: `if balance - commission < 0`
close_floorearly(self, current_price, bal) ==
    LET amount == Mul(self.size, current_price)
        pnl == IF self.side = 1
               THEN Mul(self.size, current_price - self.entry_price)
               ELSE Mul(self.size, self.entry_price - current_price)
        fee == commission(amount)
        bal1 == bal + amount - fee
        floor == bal - fee < 0
        bal2 == IF floor THEN 0 ELSE bal1
    IN  [realized_pnl |-> IF floor THEN 0 - bal2 ELSE pnl,
         balance |-> bal2,
         self |-> [self EXCEPT !.side = 0, !.size = 0, !.entry_price = 0,
                               !.unrealized_pnl = 0, !.capital = 0,
                               !.holding_time = 0, !.idle_time = 1,
                               !.max_profit = 0, !.max_loss = 0]]

\* ManagerPosition.close: the returned (realized_pnl, balance) and the object
\* afterwards.  In the floor branch the code first sets balance = 0 and then
\* realized_pnl = -balance, which is the negative of the floored balance.
close(self, current_price, bal) ==
    LET amount == Mul(self.size, current_price)
        pnl == IF self.side = 1
               THEN Mul(self.size, current_price - self.entry_price)
               ELSE Mul(self.size, self.entry_price - current_price)
        fee == commission(amount)
        bal1 == bal + amount - fee
        bal2 == IF bal1 < 0 THEN 0 ELSE bal1
    IN  [realized_pnl |-> IF bal1 < 0 THEN 0 - bal2 ELSE pnl,
         balance |-> bal2,
         self |-> [self EXCEPT !.side = 0, !.size = 0, !.entry_price = 0,
                               !.unrealized_pnl = 0, !.capital = 0,
                               !.holding_time = 0, !.idle_time = 1,
                               !.max_profit = 0, !.max_loss = 0]]

\* The cost of opening size at price: what open debits on success
Cost(size, price) == Mul(size, price) + commission(Mul(size, price))

\* Initial balances: 0, and the exact notional and cost of the largest open
\* (so that the balance check of open is met on its boundary)
InitBalances == {0, Mul(MaxSize, MaxPrice), Cost(MaxSize, MaxPrice)}

\* The record kept of a call: its arguments, the balance it was given, whether
\* the position was flat (side = 0) when it was made, and what it returned
Call(op, current_price, position_size, side, bal, flat, ok, realized_pnl) ==
    [op |-> op, current_price |-> current_price, position_size |-> position_size,
     side |-> side, balance |-> bal, flat |-> flat, ok |-> ok,
     realized_pnl |-> realized_pnl]

NoCall == Call("init", 0, 0, 0, 0, TRUE, TRUE, 0)

\* A call position.open(current_price, position_size, balance, side); the
\* caller keeps the returned balance, as EnvTradingBase._open does
CallOpen ==
    /\ ncalls < MaxCalls
    /\ \E current_price \in Prices, position_size \in Sizes, side \in Sides :
         LET r == open(position, current_price, position_size, balance, side)
         IN  /\ position' = r.self
             /\ balance' = r.balance
             /\ ret' = Call("open", current_price, position_size, side, balance,
                            position.side = 0, r.ok, 0)
    /\ ncalls' = ncalls + 1
    /\ UNCHANGED <<simVars, thread, cache, decision>>

\* A call position.close(current_price, balance); the caller keeps the returned
\* balance, as EnvTradingBase._close does
CallClose ==
    /\ ncalls < MaxCalls
    /\ \E current_price \in Prices :
         LET r == close(position, current_price, balance)
         IN  /\ position' = r.self
             /\ balance' = r.balance
             /\ ret' = Call("close", current_price, 0, 0, 0,
                            position.side = 0, TRUE, r.realized_pnl)
    /\ ncalls' = ncalls + 1
    /\ UNCHANGED <<simVars, thread, cache, decision>>

\* A call position.update(current_price)
CallUpdate ==
    /\ ncalls < MaxCalls
    /\ \E current_price \in Prices :
         /\ position' = update(position, current_price)
         /\ ret' = Call("update", current_price, 0, 0, 0, position.side = 0, TRUE, 0)
    /\ ncalls' = ncalls + 1
    /\ UNCHANGED <<balance, client, reply, thread, cache, decision>>

\* A call position.reset()
CallReset ==
    /\ ncalls < MaxCalls
    /\ position' = reset(position)
    /\ ret' = Call("reset", 0, 0, 0, 0, position.side = 0, TRUE, 0)
    /\ ncalls' = ncalls + 1
    /\ UNCHANGED <<balance, client, reply, thread, cache, decision>>

\* ----------------------------------------------------- ClientSimulation
\* Identifiers: str(uuid.uuid4()) yields a fresh identifier at each call; the
\* model numbers orders and trades in the order of their creation.
\* Fields no modelled operation reads ('time', 'timeInForce') are left out of
\* the order and trade records.
MaxQuantity == 1    \* order quantities are 1..MaxQuantity
MaxTick == 2        \* tick prices are 0..MaxTick, limit prices 1..MaxTick

Symbols == {"BTCUSDT", "ETHUSDT"}
SIDE_BUY == "BUY"
SIDE_SELL == "SELL"
OrderSides == {SIDE_BUY, SIDE_SELL}
ORDER_TYPE_MARKET == "MARKET"
ORDER_TYPE_LIMIT == "LIMIT"
Quantities == 1..MaxQuantity
TickPrices == 0..MaxTick
LimitPrices == 1..MaxTick

Abs(x) == IF x < 0 THEN 0 - x ELSE x

RECURSIVE GCD(_, _)
GCD(a, b) == IF b = 0 THEN a ELSE GCD(b, a % b)

\* The float n/d (d > 0) of an entry price, in lowest terms
Rat(n, d) == LET g == GCD(Abs(n), d) IN [num |-> n \div g, den |-> d \div g]

\* ClientSimulation._calculate_commission(order_value): order_value * Fee.Taker
_calculate_commission(order_value) == (order_value * RateNum) \div RateDen

\* config['initial_balance']: what one fill of the largest order costs in fees
initial_balance == _calculate_commission(Mul(MaxQuantity, MaxTick))

\* ClientSimulation.__init__.  It assigns default_leverage and
\* default_margin_type, which nothing reads, but not the attributes leverage and
\* margin_type: an attribute is << >> while the object does not have it and
\* <<value>> once it is assigned.
ClientSimulation ==
    [balance |-> initial_balance,
     positions |-> << >>,
     orders |-> << >>,
     trades |-> << >>,
     market_prices |-> << >>,
     leverage |-> << >>,
     margin_type |-> << >>]

\* positions and market_prices are dicts: functions on the keys present
Put(dict, key, value) ==
    [k \in DOMAIN dict \cup {key} |-> IF k = key THEN value ELSE dict[k]]

\* ClientSimulation._update_position
_update_position(c, symbol, side, quantity, price) ==
    LET position1 == IF symbol \in DOMAIN c.positions THEN c.positions[symbol]
                     ELSE [size |-> 0, entry_price |-> Rat(0, 1)]
        old_size == position1.size
        new_size == IF side = SIDE_BUY THEN old_size + quantity
                    ELSE old_size - quantity
        entry == IF (old_size * new_size <= 0) \/ new_size = 0
                 THEN (IF new_size # 0 THEN Rat(price, 1) ELSE Rat(0, 1))
                 ELSE Rat(Abs(old_size) * position1.entry_price.num
                            + quantity * price * position1.entry_price.den,
                          position1.entry_price.den * Abs(new_size))
        fee == _calculate_commission(Mul(quantity, price))
    IN  [c EXCEPT !.positions = Put(c.positions, symbol,
                                    [size |-> new_size, entry_price |-> entry]),
                  !.balance = c.balance - fee]

\* The trade record appended on a fill
Trade(c, symbol, order_id, side, price, quantity) ==
    [symbol |-> symbol, id |-> Len(c.trades) + 1, orderId |-> order_id,
     side |-> side, price |-> price, quantity |-> quantity,
     commission |-> _calculate_commission(Mul(quantity, price))]

\* place_market_order without the `if not price` return: a missing price reads as 0
place_market_order_nocheck(c, symbol, side, quantity, reduce_only) ==
    LET price == IF symbol \in DOMAIN c.market_prices
                 THEN c.market_prices[symbol] ELSE 0
        order == [orderId |-> Len(c.orders) + 1, symbol |-> symbol,
                  side |-> side, type |-> ORDER_TYPE_MARKET,
                  quantity |-> quantity, price |-> price,
                  reduceOnly |-> reduce_only, status |-> "FILLED"]
        c1 == _update_position(c, symbol, side, quantity, price)
    IN  [client |-> [c1 EXCEPT
                       !.orders = Append(c1.orders, order),
                       !.trades = Append(c1.trades,
                           Trade(c1, symbol, order.orderId, side, price, quantity))],
         result |-> <<order>>]

\* ClientSimulation.place_market_order: the client afterwards and the returned
\* dict (<< >> for {}, <<order>> for an order).  `not price` holds of a missing
\* price and of the price 0.
place_market_order(c, symbol, side, quantity, reduce_only) ==
    IF symbol \notin DOMAIN c.market_prices \/ c.market_prices[symbol] = 0
    THEN [client |-> c, result |-> << >>]
    ELSE LET price == c.market_prices[symbol]
             order == [orderId |-> Len(c.orders) + 1, symbol |-> symbol,
                       side |-> side, type |-> ORDER_TYPE_MARKET,
                       quantity |-> quantity, price |-> price,
                       reduceOnly |-> reduce_only, status |-> "FILLED"]
             c1 == _update_position(c, symbol, side, quantity, price)
         IN  [client |-> [c1 EXCEPT
                            !.orders = Append(c1.orders, order),
                            !.trades = Append(c1.trades,
                                Trade(c1, symbol, order.orderId, side, price, quantity))],
              result |-> <<order>>]

\* cancel_order without the status check of line 253
cancel_order_anystatus(c, symbol, order_id) ==
    LET hits == {i \in 1..Len(c.orders) :
                   /\ c.orders[i].orderId = order_id
                   /\ c.orders[i].symbol = symbol}
    IN  IF hits = {}
        THEN [client |-> c, result |-> << >>]
        ELSE LET i == CHOOSE j \in hits : \A k \in hits : j <= k
                 c1 == [c EXCEPT !.orders[i].status = "CANCELED"]
             IN  [client |-> c1, result |-> <<c1.orders[i]>>]

\* cancel_order without the symbol check of line 252
cancel_order_anysymbol(c, symbol, order_id) ==
    LET hits == {i \in 1..Len(c.orders) :
                   /\ c.orders[i].orderId = order_id
                   /\ c.orders[i].status = "NEW"}
    IN  IF hits = {}
        THEN [client |-> c, result |-> << >>]
        ELSE LET i == CHOOSE j \in hits : \A k \in hits : j <= k
                 c1 == [c EXCEPT !.orders[i].status = "CANCELED"]
             IN  [client |-> c1, result |-> <<c1.orders[i]>>]

\* ClientSimulation.cancel_order: the loop returns at the first order with this
\* id and symbol that is NEW, and {} when it has passed every order
cancel_order(c, symbol, order_id) ==
    LET hits == {i \in 1..Len(c.orders) :
                   /\ c.orders[i].orderId = order_id
                   /\ c.orders[i].symbol = symbol
                   /\ c.orders[i].status = "NEW"}
    IN  IF hits = {}
        THEN [client |-> c, result |-> << >>]
        ELSE LET i == CHOOSE j \in hits : \A k \in hits : j <= k
                 c1 == [c EXCEPT !.orders[i].status = "CANCELED"]
             IN  [client |-> c1, result |-> <<c1.orders[i]>>]

\* the fill condition with the two price comparisons exchanged
Fillable_swapped(order, symbol, price) ==
    /\ order.symbol = symbol
    /\ order.status = "NEW"
    /\ order.type = ORDER_TYPE_LIMIT
    /\ \/ order.side = SIDE_BUY /\ price >= order.price
       \/ order.side = SIDE_SELL /\ price <= order.price

\* The condition of _check_limit_orders under which an order is filled by a
\* tick of symbol at price
Fillable(order, symbol, price) ==
    /\ order.symbol = symbol
    /\ order.status = "NEW"
    /\ order.type = ORDER_TYPE_LIMIT
    /\ \/ order.side = SIDE_BUY /\ price <= order.price
       \/ order.side = SIDE_SELL /\ price >= order.price

\* One iteration of the loop that marks the order FILLED and updates the
\* position without recording a trade
FillStep_notrade(c, symbol, price, i) ==
    IF Fillable(c.orders[i], symbol, price)
    THEN LET order == c.orders[i]
             c1 == [c EXCEPT !.orders[i].status = "FILLED"]
         IN  _update_position(c1, symbol, order.side, order.quantity,
                              order.price)
    ELSE c

\* One iteration of the loop that executes the order at the tick price
FillStep_tickprice(c, symbol, price, i) ==
    IF Fillable(c.orders[i], symbol, price)
    THEN LET order == c.orders[i]
             c1 == [c EXCEPT !.orders[i].status = "FILLED"]
             c2 == _update_position(c1, symbol, order.side, order.quantity,
                                    price)
         IN  [c2 EXCEPT !.trades = Append(c2.trades,
                 Trade(c2, symbol, order.orderId, order.side, price,
                       order.quantity))]
    ELSE c

\* One iteration of the loop of _check_limit_orders, on the order at index i
FillStep(c, symbol, price, i) ==
    IF Fillable(c.orders[i], symbol, price)
    THEN LET order == c.orders[i]
             c1 == [c EXCEPT !.orders[i].status = "FILLED"]
             c2 == _update_position(c1, symbol, order.side, order.quantity,
                                    order.price)
         IN  [c2 EXCEPT !.trades = Append(c2.trades,
                 Trade(c2, symbol, order.orderId, order.side, order.price,
                       order.quantity))]
    ELSE c

\* place_limit_order that matches the order at once against the latest price
place_limit_order_eager(c, symbol, side, quantity, price, reduce_only) ==
    LET order == [orderId |-> Len(c.orders) + 1, symbol |-> symbol,
                  side |-> side, type |-> ORDER_TYPE_LIMIT,
                  quantity |-> quantity, price |-> price,
                  reduceOnly |-> reduce_only, status |-> "NEW"]
        c1 == [c EXCEPT !.orders = Append(c.orders, order)]
    IN  [client |-> IF symbol \in DOMAIN c.market_prices
                    THEN FillStep(c1, symbol, c.market_prices[symbol],
                                  Len(c1.orders))
                    ELSE c1,
         result |-> <<order>>]

\* ClientSimulation.place_limit_order
place_limit_order(c, symbol, side, quantity, price, reduce_only) ==
    LET order == [orderId |-> Len(c.orders) + 1, symbol |-> symbol,
                  side |-> side, type |-> ORDER_TYPE_LIMIT,
                  quantity |-> quantity, price |-> price,
                  reduceOnly |-> reduce_only, status |-> "NEW"]
    IN  [client |-> [c EXCEPT !.orders = Append(c.orders, order)],
         result |-> <<order>>]

\* The loop of _check_limit_orders, visiting the orders at the indexes `visit`
RECURSIVE FillLoop(_, _, _, _)
FillLoop(c, symbol, price, visit) ==
    IF visit = << >> THEN c
    ELSE FillLoop(FillStep(c, symbol, price, Head(visit)), symbol, price,
                  Tail(visit))

\* _check_limit_orders visiting the orders last to first
_check_limit_orders_reversed(c, symbol, price) ==
    FillLoop(c, symbol, price,
             [i \in 1..Len(c.orders) |-> Len(c.orders) + 1 - i])

\* _check_limit_orders with a `break` after the first fill
_check_limit_orders_first(c, symbol, price) ==
    LET hits == {i \in 1..Len(c.orders) : Fillable(c.orders[i], symbol, price)}
    IN  IF hits = {} THEN c
        ELSE FillStep(c, symbol, price, CHOOSE i \in hits : \A j \in hits : i <= j)

\* ClientSimulation._check_limit_orders: `for order in self.orders`
_check_limit_orders(c, symbol, price) ==
    FillLoop(c, symbol, price, [i \in 1..Len(c.orders) |-> i])

\* ClientSimulation.update_market_price
update_market_price(c, symbol, price) ==
    _check_limit_orders(
        [c EXCEPT !.market_prices = Put(c.market_prices, symbol, price)],
        symbol, price)

\* ------------------------------------------- leverage, margin type, queries
MaxLeverage == 1    \* the leverages passed to set_leverage are 0..MaxLeverage

Leverages == 0..MaxLeverage
MarginTypes == {"ISOLATED", "CROSSED"}

\* ClientSimulation.set_leverage: one attribute for all symbols
set_leverage(c, symbol, leverage) ==
    [client |-> [c EXCEPT !.leverage = <<leverage>>], result |-> leverage]

\* ClientSimulation.set_margin_type
set_margin_type(c, symbol, margin_type) ==
    [client |-> [c EXCEPT !.margin_type = <<margin_type>>],
     result |-> margin_type]

\* What a query gives its caller: error is TRUE when an exception leaves the
\* call (AttributeError for an attribute the object does not have,
\* ZeroDivisionError for a division by leverage 0).  Of the returned value the
\* model keeps one number.
Outcome(error, value) == [error |-> error, value |-> value]

\* _calculate_liquidation_price(symbol) raises: it returns 0 for a position of
\* size 0 and otherwise evaluates 1/self.leverage
LiquidationPriceRaises(c, symbol) ==
    /\ c.positions[symbol].size # 0
    /\ c.leverage = << >> \/ c.leverage = <<0>>

\* The dict that get_position_risk builds for the position of symbol raises:
\* it reads _calculate_liquidation_price, self.leverage and self.margin_type
PositionRiskRaises(c, symbol) ==
    \/ LiquidationPriceRaises(c, symbol)
    \/ c.leverage = << >>
    \/ c.margin_type = << >>

\* ClientSimulation.get_position_risk(symbol); symbol "" is None, every symbol.
\* value: the number of positions listed.
get_position_risk(c, symbol) ==
    LET listed == {sym \in DOMAIN c.positions : symbol = "" \/ sym = symbol}
    IN  IF \E sym \in listed : PositionRiskRaises(c, sym)
        THEN Outcome(TRUE, 0)
        ELSE Outcome(FALSE, Cardinality(listed))

\* _calculate_available_balance raises: the sum divides by self.leverage once
\* for each position, of any size
AvailableBalanceRaises(c) ==
    /\ DOMAIN c.positions # {}
    /\ c.leverage = << >> \/ c.leverage = <<0>>

\* ClientSimulation.get_account_info.  value: totalWalletBalance.
get_account_info(c) ==
    IF AvailableBalanceRaises(c) \/ get_position_risk(c, "").error
    THEN Outcome(TRUE, 0)
    ELSE Outcome(FALSE, c.balance)

\* ClientSimulation.get_balance.  value: balance.
get_balance(c) == Outcome(FALSE, c.balance)

\* The record kept of a call on the client
Reply(op, symbol, price, order_id, result) ==
    [op |-> op, symbol |-> symbol, price |-> price, order_id |-> order_id,
     result |-> result]

NoReply == Reply("init", "", 0, 0, << >>)

\* The reduce_only flags passed to the place operations
ReduceOnlyFlags == {FALSE}

\* The order ids passed to cancel_order: those of the orders placed, and one
\* that no order has
OrderIds(c) == 1..(Len(c.orders) + 1)

PlaceMarketOrder ==
    /\ ncalls < MaxCalls
    /\ \E symbol \in Symbols, side \in OrderSides, quantity \in Quantities,
          reduce_only \in ReduceOnlyFlags :
         LET r == place_market_order(client, symbol, side, quantity, reduce_only)
         IN  /\ client' = r.client
             /\ reply' = Reply("place_market_order", symbol, 0, 0, r.result)
    /\ ncalls' = ncalls + 1
    /\ UNCHANGED <<posVars, thread, cache, decision>>

PlaceLimitOrder ==
    /\ ncalls < MaxCalls
    /\ \E symbol \in Symbols, side \in OrderSides, quantity \in Quantities,
          price \in LimitPrices, reduce_only \in ReduceOnlyFlags :
         LET r == place_limit_order(client, symbol, side, quantity, price,
                                    reduce_only)
         IN  /\ client' = r.client
             /\ reply' = Reply("place_limit_order", symbol, price, 0, r.result)
    /\ ncalls' = ncalls + 1
    /\ UNCHANGED <<posVars, thread, cache, decision>>

CancelOrder ==
    /\ ncalls < MaxCalls
    /\ \E symbol \in Symbols, order_id \in OrderIds(client) :
         LET r == cancel_order(client, symbol, order_id)
         IN  /\ client' = r.client
             /\ reply' = Reply("cancel_order", symbol, 0, order_id, r.result)
    /\ ncalls' = ncalls + 1
    /\ UNCHANGED <<posVars, thread, cache, decision>>

UpdateMarketPrice ==
    /\ ncalls < MaxCalls
    /\ \E symbol \in Symbols, price \in TickPrices :
         /\ client' = update_market_price(client, symbol, price)
         /\ reply' = Reply("update_market_price", symbol, price, 0, << >>)
    /\ ncalls' = ncalls + 1
    /\ UNCHANGED <<posVars, thread, cache, decision>>

\* ------------------------------------- two threads calling one ClientSimulation
\* ClientSimulation takes no lock.  A thread's place_market_order call is taken
\* in the steps at which another thread can run in between: the price lookup,
\* the order and the position update (lines 178-355), the read of self.balance
\* in `self.balance -= commission` (line 359), its write, and the two appends
\* (lines 202-213).  Each thread fills its own symbol.
Threads == {1, 2}
ThreadSymbol(t) == IF t = 1 THEN "BTCUSDT" ELSE "ETHUSDT"

\* A thread that has not called yet
NoThread ==
    [pc |-> "idle", side |-> SIDE_BUY, quantity |-> 0, price |-> 0, loaded |-> 0]
NoThreads == [t \in Threads |-> NoThread]

\* Lines 178-197 and 330-355: `if not price: return {}`; otherwise the order is
\* built and the position of the thread's symbol is updated
ThreadBegin(t) ==
    /\ thread[t].pc = "idle"
    /\ \E side \in OrderSides, quantity \in Quantities :
         LET symbol == ThreadSymbol(t)
         IN  IF symbol \notin DOMAIN client.market_prices
                  \/ client.market_prices[symbol] = 0
             THEN /\ thread' = [thread EXCEPT ![t].pc = "done"]
                  /\ UNCHANGED client
             ELSE LET price == client.market_prices[symbol]
                  IN  /\ client' = [client EXCEPT !.positions =
                             _update_position(client, symbol, side, quantity,
                                              price).positions]
                      /\ thread' = [thread EXCEPT ![t] =
                             [pc |-> "load", side |-> side,
                              quantity |-> quantity, price |-> price,
                              loaded |-> 0]]
    /\ UNCHANGED <<posVars, reply, ncalls, cache, decision>>

\* Line 359, the read of self.balance
ThreadLoad(t) ==
    /\ thread[t].pc = "load"
    /\ thread' = [thread EXCEPT ![t].pc = "store", ![t].loaded = client.balance]
    /\ UNCHANGED <<posVars, client, reply, ncalls, cache, decision>>

\* Line 359, the write of self.balance: the value read minus the commission
ThreadStore(t) ==
    /\ thread[t].pc = "store"
    /\ client' = [client EXCEPT !.balance =
                    thread[t].loaded
                      - _calculate_commission(Mul(thread[t].quantity,
                                                  thread[t].price))]
    /\ thread' = [thread EXCEPT ![t].pc = "record"]
    /\ UNCHANGED <<posVars, reply, ncalls, cache, decision>>

\* Lines 202-213: the order and the trade are appended; the order's uuid is
\* numbered by the thread that made it
ThreadRecord(t) ==
    /\ thread[t].pc = "record"
    /\ LET order == [orderId |-> t, symbol |-> ThreadSymbol(t),
                     side |-> thread[t].side, type |-> ORDER_TYPE_MARKET,
                     quantity |-> thread[t].quantity, price |-> thread[t].price,
                     reduceOnly |-> FALSE, status |-> "FILLED"]
       IN  client' = [client EXCEPT
                        !.orders = Append(client.orders, order),
                        !.trades = Append(client.trades,
                            Trade(client, order.symbol, order.orderId, order.side,
                                  order.price, order.quantity))]
    /\ thread' = [thread EXCEPT ![t].pc = "done"]
    /\ UNCHANGED <<posVars, reply, ncalls, cache, decision>>

Begin == \E t \in Threads : ThreadBegin(t)
Load == \E t \in Threads : ThreadLoad(t)
Store == \E t \in Threads : ThreadStore(t)
Record == \E t \in Threads : ThreadRecord(t)

\* --------------------------------- market orders of any quantity and flag
MaxFillQuantity == 2    \* market order quantities are 1..MaxFillQuantity

FillQuantities == 1..MaxFillQuantity

\* A call place_market_order(symbol, side, quantity, reduce_only) with either
\* value of the flag
PlaceMarketOrderAny ==
    /\ ncalls < MaxCalls
    /\ \E symbol \in Symbols, side \in OrderSides, quantity \in FillQuantities,
          reduce_only \in BOOLEAN :
         LET r == place_market_order(client, symbol, side, quantity, reduce_only)
         IN  /\ client' = r.client
             /\ reply' = Reply("place_market_order", symbol, 0, 0, r.result)
    /\ ncalls' = ncalls + 1
    /\ UNCHANGED <<posVars, thread, cache, decision>>

\* ------------------------------------------- calls that set or query
SetLeverage ==
    /\ ncalls < MaxCalls
    /\ \E symbol \in Symbols, leverage \in Leverages :
         /\ client' = set_leverage(client, symbol, leverage).client
         /\ reply' = Reply("set_leverage", symbol, 0, 0, << >>)
    /\ ncalls' = ncalls + 1
    /\ UNCHANGED <<posVars, thread, cache, decision>>

SetMarginType ==
    /\ ncalls < MaxCalls
    /\ \E symbol \in Symbols, margin_type \in MarginTypes :
         /\ client' = set_margin_type(client, symbol, margin_type).client
         /\ reply' = Reply("set_margin_type", symbol, 0, 0, << >>)
    /\ ncalls' = ncalls + 1
    /\ UNCHANGED <<posVars, thread, cache, decision>>

\* The queries leave the client as it is; ncalls does not count them
GetPositionRisk ==
    /\ \E symbol \in Symbols \cup {""} :
         reply' = Reply("get_position_risk", symbol, 0, 0,
                        <<get_position_risk(client, symbol)>>)
    /\ UNCHANGED <<posVars, thread, client, ncalls, cache, decision>>

GetAccountInfo ==
    /\ reply' = Reply("get_account_info", "", 0, 0, <<get_account_info(client)>>)
    /\ UNCHANGED <<posVars, thread, client, ncalls, cache, decision>>

GetBalance ==
    /\ reply' = Reply("get_balance", "", 0, 0, <<get_balance(client)>>)
    /\ UNCHANGED <<posVars, thread, client, ncalls, cache, decision>>

\* ------------------------- calls on a ManagerPosition at the prices 100, 110
ScenarioPrices == {100, 110}

\* The amount of money whole + frac/RateDen, e.g. Money(9899, 9500) is 9899.95
Money(whole, frac) == whole * RateDen + frac

\* The record kept of a call in the scenario: that of Call, with the balance
\* the call was given, and the operation and price of the call before it
ScenarioCall(op, current_price, position_size, side, bal, flat, ok, realized_pnl) ==
    [op |-> op, current_price |-> current_price, position_size |-> position_size,
     side |-> side, balance |-> bal, flat |-> flat, ok |-> ok,
     realized_pnl |-> realized_pnl, before |-> <<ret.op, ret.current_price>>]

NoScenarioCall ==
    [op |-> "init", current_price |-> 0, position_size |-> 0, side |-> 0,
     balance |-> 0, flat |-> TRUE, ok |-> TRUE, realized_pnl |-> 0,
     before |-> <<"", 0>>]

\* A call position.open(current_price, position_size, balance, side)
ScenarioOpen ==
    /\ ncalls < MaxCalls
    /\ \E current_price \in ScenarioPrices, position_size \in Sizes,
          side \in Sides :
         LET r == open(position, current_price, position_size, balance, side)
         IN  /\ position' = r.self
             /\ balance' = r.balance
             /\ ret' = ScenarioCall("open", current_price, position_size,
                                    side, balance, position.side = 0,
                                    r.ok, 0)
    /\ ncalls' = ncalls + 1
    /\ UNCHANGED <<simVars, thread, cache, decision>>

\* A call position.close(current_price, balance)
ScenarioClose ==
    /\ ncalls < MaxCalls
    /\ \E current_price \in ScenarioPrices :
         LET r == close(position, current_price, balance)
         IN  /\ position' = r.self
             /\ balance' = r.balance
             /\ ret' = ScenarioCall("close", current_price, 0, 0, balance,
                                    position.side = 0, TRUE, r.realized_pnl)
    /\ ncalls' = ncalls + 1
    /\ UNCHANGED <<simVars, thread, cache, decision>>

\* A call position.update(current_price)
ScenarioUpdate ==
    /\ ncalls < MaxCalls
    /\ \E current_price \in ScenarioPrices :
         /\ position' = update(position, current_price)
         /\ ret' = ScenarioCall("update", current_price, 0, 0, 0,
                              position.side = 0, TRUE, 0)
    /\ ncalls' = ncalls + 1
    /\ UNCHANGED <<balance, client, reply, thread, cache, decision>>

\* ----------------------------------------------------------- get_all_orders
\* get_all_orders reads the 'symbol' and the 'time' of the orders: here the
\* orders carry 'time', the millisecond clock read when they were placed.
MaxBook == 2     \* the client holds 0..MaxBook orders
MaxTime == 2     \* order times and range ends are 1..MaxTime
MaxLimit == 2    \* the limits passed are 0..MaxLimit

Times == 1..MaxTime
Limits == 0..MaxLimit

\* start_time and end_time: 0 stands for None as well (`if start_time:` takes
\* both the same way)
RangeEnds == 0..MaxTime

\* The order that place_limit_order(symbol, BUY, 1, 1) appends as the n-th
\* order when the clock reads time
TimedOrder(n, symbol, time) ==
    [orderId |-> n, symbol |-> symbol, side |-> SIDE_BUY,
     type |-> ORDER_TYPE_LIMIT, quantity |-> 1, price |-> 1,
     reduceOnly |-> FALSE, status |-> "NEW", time |-> time]

\* The order lists after 0..MaxBook place_limit_order calls: the clock does not
\* run backwards, so the times do not decrease along the list
Books ==
    UNION {{[n \in 1..len |-> TimedOrder(n, symbols[n], times[n])] :
              symbols \in [1..len -> Symbols],
              times \in {t \in [1..len -> Times] :
                           \A n \in 1..len : \A m \in n..len : t[n] <= t[m]}} :
           len \in 0..MaxBook}

\* Python's seq[-limit:] for limit >= 0: the last `limit` elements, and the
\* whole sequence when limit = 0 (seq[-0:] is seq[0:])
LastSlice(seq, limit) ==
    IF limit = 0 \/ limit >= Len(seq) THEN seq
    ELSE SubSeq(seq, Len(seq) - limit + 1, Len(seq))

\* ClientSimulation.get_all_orders
get_all_orders(c, symbol, limit, start_time, end_time) ==
    LET OfSymbol(order) == order.symbol = symbol
        FromStart(order) == order.time >= start_time
        ToEnd(order) == order.time <= end_time
        orders1 == SelectSeq(c.orders, OfSymbol)
        orders2 == IF start_time # 0 THEN SelectSeq(orders1, FromStart)
                   ELSE orders1
        orders3 == IF end_time # 0 THEN SelectSeq(orders2, ToEnd) ELSE orders2
    IN  LastSlice(orders3, limit)

\* A call get_all_orders(symbol, limit, start_time, end_time)
GetAllOrders ==
    /\ \E symbol \in Symbols, limit \in Limits, start_time \in RangeEnds,
          end_time \in RangeEnds :
         reply' = [op |-> "get_all_orders", symbol |-> symbol, limit |-> limit,
                   start_time |-> start_time, end_time |-> end_time,
                   result |-> get_all_orders(client, symbol, limit, start_time,
                                             end_time)]
    /\ UNCHANGED <<posVars, thread, client, ncalls, cache, decision>>

\* ------------------------------------------------------- CacheFeatureFile
\* One cache file (one key) of CacheFeatureFile (src/utils/cache_feature_file.py)
\* on a POSIX file system, one set(value, key) call and the get(key) calls of
\* the threads Readers.  Each system call is one step.  The file is one inode:
\* `linked` says whether the cache path names it, `content` is what it holds:
\* "empty" (0 bytes, after open(path, 'wb')), "old" (the complete pickle of an
\* earlier set) or "new" (the complete pickle of this set).  A get returns
\* "None", "old" or "new".
Readers == {1, 2}

NoReader == [pc |-> "idle", result |-> "None", after |-> FALSE]

\* No file, no call in progress
NoCache ==
    [linked |-> FALSE, content |-> "empty", ex |-> FALSE, sh |-> {},
     setter |-> "idle", reader |-> [r \in Readers |-> NoReader]]

\* The file left by an earlier, finished set
OldCache == [NoCache EXCEPT !.linked = TRUE, !.content = "old"]

cacheOther ==
    <<position, balance, ret, ncalls, client, reply, thread, decision>>

\* set, line 114: open(cache_path, 'wb') creates the file or truncates it, before
\* any lock is taken
SetOpen ==
    /\ cache.setter = "idle"
    /\ cache' = [cache EXCEPT !.setter = "lock", !.linked = TRUE,
                              !.content = "empty"]
    /\ UNCHANGED cacheOther

\* set, line 116: portalocker.lock(f, LOCK_EX) waits until no shared lock is held
SetLock ==
    /\ cache.setter = "lock"
    /\ cache.sh = {}
    /\ cache' = [cache EXCEPT !.setter = "dump", !.ex = TRUE]
    /\ UNCHANGED cacheOther

\* set, lines 118-119: pickle.dump and flush write to the open file, whether or
\* not the path still names it
SetDump ==
    /\ cache.setter = "dump"
    /\ cache' = [cache EXCEPT !.setter = "unlock", !.content = "new"]
    /\ UNCHANGED cacheOther

\* set, line 122: unlock, close, return
SetUnlock ==
    /\ cache.setter = "unlock"
    /\ cache' = [cache EXCEPT !.setter = "done", !.ex = FALSE]
    /\ UNCHANGED cacheOther

\* get, line 72: os.path.exists; `after` records that set had returned when this
\* get began
GetExists ==
    /\ \E r \in Readers :
         /\ cache.reader[r].pc = "idle"
         /\ cache' = [cache EXCEPT !.reader[r] =
                        [pc |-> IF cache.linked THEN "size" ELSE "done",
                         result |-> "None",
                         after |-> cache.setter = "done"]]
    /\ UNCHANGED cacheOther

\* get, line 74: os.path.getsize(cache_path) < 10; OSError when the file is gone
\* (the handler of lines 89-97 then returns None)
GetSize ==
    /\ \E r \in Readers :
         /\ cache.reader[r].pc = "size"
         /\ cache' = [cache EXCEPT !.reader[r].pc =
                        IF ~cache.linked THEN "done"
                        ELSE IF cache.content = "empty" THEN "mtime"
                        ELSE "open"]
    /\ UNCHANGED cacheOther

\* get, line 76: time.time() - os.path.getmtime(cache_path) < 10; the clock
\* decides it.  Line 78 returns None when the file is 10 s old or older.
GetMtime ==
    /\ \E r \in Readers, recent \in BOOLEAN :
         /\ cache.reader[r].pc = "mtime"
         /\ cache' = [cache EXCEPT !.reader[r].pc =
                        IF cache.linked /\ recent THEN "remove" ELSE "done"]
    /\ UNCHANGED cacheOther

\* get, lines 77-78: os.remove(cache_path), return None
GetRemove ==
    /\ \E r \in Readers :
         /\ cache.reader[r].pc = "remove"
         /\ cache' = [cache EXCEPT !.reader[r].pc = "done", !.linked = FALSE]
    /\ UNCHANGED cacheOther

\* get, line 79: open(cache_path, 'rb'); FileNotFoundError when the file is gone
GetOpen ==
    /\ \E r \in Readers :
         /\ cache.reader[r].pc = "open"
         /\ cache' = [cache EXCEPT !.reader[r].pc =
                        IF cache.linked THEN "lock" ELSE "done"]
    /\ UNCHANGED cacheOther

\* get, line 81: portalocker.lock(f, LOCK_SH) waits until no exclusive lock is
\* held
GetLock ==
    /\ \E r \in Readers :
         /\ cache.reader[r].pc = "lock"
         /\ ~cache.ex
         /\ cache' = [cache EXCEPT !.reader[r].pc = "load",
                                   !.sh = cache.sh \cup {r}]
    /\ UNCHANGED cacheOther

\* get, lines 83-88: pickle.load returns the value of a complete pickle and
\* raises on an empty file (then `except: return None`); unlock
GetLoad ==
    /\ \E r \in Readers :
         /\ cache.reader[r].pc = "load"
         /\ cache' = [cache EXCEPT
                        !.reader[r].pc = "done",
                        !.reader[r].result =
                            IF cache.content = "empty" THEN "None"
                            ELSE cache.content,
                        !.sh = cache.sh \ {r}]
    /\ UNCHANGED cacheOther

\* ------------------------------------------------------------ final_action
\* final_action (src/agents/agent_utils.py) and the enumerations it compares its
\* arguments with (src/const/const.py).  A value is [cls, value]: a member of an
\* Enum class, or a plain int.  Enum is not IntEnum, so a member equals only
\* itself: Position.Long # 1 and Position.Long # Trend.Up.  The returned strings
\* are written in ASCII: "flat" is the action "空仓", "buy" is "买入", "sell" is
\* "卖出", "wait" is "观望", "unknown" is "未知"; "high" is the confidence "高" and
\* "medium" is "中".
Member(cls, value) == [cls |-> cls, value |-> value]

PlainInt(value) == Member("int", value)

Trend_Up == Member("Trend", 1)

Trend_Down == Member("Trend", 2)

Trend_Sideways == Member("Trend", 0)

Position_Empty == Member("Position", 0)

Position_Long == Member("Position", 1)

Position_Short == Member("Position", 2)

Execution_Immediate == Member("Execution", 0)

Execution_Wait == Member("Execution", 1)

Execution_Batch == Member("Execution", 2)

Trend == {Trend_Up, Trend_Down, Trend_Sideways}

Position == {Position_Empty, Position_Long, Position_Short}

Execution == {Execution_Immediate, Execution_Wait, Execution_Batch}

\* The agents' raw actions, which AgentMulti.predict passes on as they are
MaxAction == 2
Actions == {PlainInt(n) : n \in 0..MaxAction}

\* execution_map.get(action, ...): a dict keyed by 0, 1, 2 finds an int, never an
\* Enum member
interpret_execution(action) ==
    IF action = PlainInt(0) THEN "immediate"
    ELSE IF action = PlainInt(1) THEN "wait"
    ELSE IF action = PlainInt(2) THEN "batch"
    ELSE "unknown<immediate>"

\* The dict final_action returns; confidence and execution are "" where the
\* dict has no such key.  Both `持多` and `持空` blocks test Position.Long, so the
\* second is never entered.
final_action(trend, pos, execution) ==
    IF pos = Position_Empty THEN
        [action |-> "flat", confidence |-> "", execution |-> ""]
    ELSE IF pos = Position_Long THEN
        IF trend = Trend_Up THEN
            [action |-> "buy",
             confidence |-> IF execution = Execution_Immediate THEN "high"
                            ELSE "medium",
             execution |-> interpret_execution(execution)]
        ELSE [action |-> "wait", confidence |-> "", execution |-> ""]
    ELSE IF pos = Position_Long THEN
        IF trend = Trend_Down THEN
            [action |-> "sell",
             confidence |-> IF execution = Execution_Immediate THEN "high"
                            ELSE "medium",
             execution |-> interpret_execution(execution)]
        ELSE [action |-> "wait", confidence |-> "", execution |-> ""]
    ELSE [action |-> "unknown", confidence |-> "", execution |-> ""]

NoDecision ==
    [op |-> "none", trend |-> PlainInt(0), position |-> PlainInt(0),
     execution |-> PlainInt(0),
     result |-> [action |-> "", confidence |-> "", execution |-> ""]]

\* One call final_action(trend, position, execution)
FinalAction ==
    /\ \E trend \in Trend \cup Actions, pos \in Position \cup Actions,
          execution \in Execution \cup Actions :
         decision' = [op |-> "final_action", trend |-> trend,
                      position |-> pos, execution |-> execution,
                      result |-> final_action(trend, pos, execution)]
    /\ UNCHANGED <<posVars, simVars, ncalls, thread, cache>>

\* Calls on one ManagerPosition, from its construction; no call on the client
InitPosition ==
    /\ position = ManagerPosition
    /\ balance \in InitBalances
    /\ ret = NoCall
    /\ ncalls = 0
    /\ client = ClientSimulation
    /\ reply = NoReply
    /\ thread = NoThreads
    /\ decision = NoDecision
    /\ cache = NoCache

NextPosition == CallOpen \/ CallClose \/ CallUpdate \/ CallReset

SpecPosition == InitPosition /\ [][NextPosition]_vars

\* Calls on one ClientSimulation, from its construction; no call on the position
InitClient ==
    /\ client = ClientSimulation
    /\ reply = NoReply
    /\ ncalls = 0
    /\ position = ManagerPosition
    /\ balance = 0
    /\ ret = NoCall
    /\ thread = NoThreads
    /\ decision = NoDecision
    /\ cache = NoCache

NextClient ==
    PlaceMarketOrder \/ PlaceLimitOrder \/ CancelOrder \/ UpdateMarketPrice

SpecClient == InitClient /\ [][NextClient]_vars

\* Two threads on one ClientSimulation that has received a tick for both
\* symbols; each thread makes one place_market_order call for its symbol
InitThreads ==
    /\ \E p1 \in TickPrices, p2 \in TickPrices :
         client = update_market_price(
                      update_market_price(ClientSimulation, "BTCUSDT", p1),
                      "ETHUSDT", p2)
    /\ reply = NoReply
    /\ ncalls = 0
    /\ position = ManagerPosition
    /\ balance = 0
    /\ ret = NoCall
    /\ thread = NoThreads
    /\ decision = NoDecision
    /\ cache = NoCache

NextThreads == Begin \/ Load \/ Store \/ Record

SpecThreads == InitThreads /\ [][NextThreads]_vars

\* Ticks and market orders on one ClientSimulation, from its construction: each
\* fill is that of one market order
InitFill ==
    /\ client = ClientSimulation
    /\ reply = NoReply
    /\ ncalls = 0
    /\ position = ManagerPosition
    /\ balance = 0
    /\ ret = NoCall
    /\ thread = NoThreads
    /\ decision = NoDecision
    /\ cache = NoCache

NextFill == UpdateMarketPrice \/ PlaceMarketOrderAny

SpecFill == InitFill /\ [][NextFill]_vars

\* Ticks, market orders, leverage and margin settings, and queries on one
\* ClientSimulation, from its construction
InitQuery ==
    /\ client = ClientSimulation
    /\ reply = NoReply
    /\ ncalls = 0
    /\ position = ManagerPosition
    /\ balance = 0
    /\ ret = NoCall
    /\ thread = NoThreads
    /\ decision = NoDecision
    /\ cache = NoCache

NextQuery ==
    \/ UpdateMarketPrice \/ PlaceMarketOrder \/ SetLeverage \/ SetMarginType
    \/ GetPositionRisk \/ GetAccountInfo \/ GetBalance

SpecQuery == InitQuery /\ [][NextQuery]_vars

\* Calls on one ManagerPosition at the prices 100 and 110, from its
\* construction, with the balance 10000
InitScenario ==
    /\ position = ManagerPosition
    /\ balance = Money(10000, 0)
    /\ ret = NoScenarioCall
    /\ ncalls = 0
    /\ client = ClientSimulation
    /\ reply = NoReply
    /\ thread = NoThreads
    /\ decision = NoDecision
    /\ cache = NoCache

NextScenario == ScenarioOpen \/ ScenarioClose \/ ScenarioUpdate

SpecScenario == InitScenario /\ [][NextScenario]_vars

\* get_all_orders calls on a ClientSimulation on which 0..MaxBook limit orders
\* were placed
InitOrders ==
    /\ \E book \in Books : client = [ClientSimulation EXCEPT !.orders = book]
    /\ reply = NoReply
    /\ ncalls = 0
    /\ position = ManagerPosition
    /\ balance = 0
    /\ ret = NoCall
    /\ thread = NoThreads
    /\ decision = NoDecision
    /\ cache = NoCache

NextOrders == GetAllOrders

SpecOrders == InitOrders /\ [][NextOrders]_vars

\* One set and the gets of Readers on one cache file, which does not exist or
\* holds the value of an earlier set
InitCache ==
    /\ cache \in {NoCache, OldCache}
    /\ position = ManagerPosition
    /\ balance = 0
    /\ ret = NoCall
    /\ ncalls = 0
    /\ client = ClientSimulation
    /\ reply = NoReply
    /\ thread = NoThreads
    /\ decision = NoDecision

NextCache ==
    \/ SetOpen \/ SetLock \/ SetDump \/ SetUnlock
    \/ GetExists \/ GetSize \/ GetMtime \/ GetRemove \/ GetOpen \/ GetLock
    \/ GetLoad

SpecCache == InitCache /\ [][NextCache]_vars

\* final_action called with any trend, position and execution
InitDecision ==
    /\ decision = NoDecision
    /\ cache = NoCache
    /\ position = ManagerPosition
    /\ balance = 0
    /\ ret = NoCall
    /\ ncalls = 0
    /\ client = ClientSimulation
    /\ reply = NoReply
    /\ thread = NoThreads

NextDecision == FinalAction

SpecDecision == InitDecision /\ [][NextDecision]_vars

\* ------------------------------------------------ claims on ManagerPosition

C2_FlatInvariant ==
    /\ (position.side = 0) <=> (position.size = 0)
    /\ (position.size = 0) <=> (position.entry_price = 0)

\* The fee of an open or a close of size at price
Fee(size, price) == commission(Mul(size, price))

\* A step that closes, at the same price, the position that the call before it
\* opened from flat
RoundTripStep ==
    /\ ret.op = "open" /\ ret.ok /\ ret.flat
    /\ ret'.op = "close" /\ ret'.current_price = ret.current_price

\* C3 (as claimed): open(P, S, balance, side) on a flat position followed
\* immediately by close(P) returns
\* realized_pnl = -(commission of the open) - (commission of the close).
C3_RoundTripPnlIsMinusFees ==
    [][RoundTripStep =>
         ret'.realized_pnl = 0 - Fee(ret.position_size, ret.current_price)
                               - Fee(ret.position_size, ret.current_price)]_vars

\* C3 (amended): open(P, S, balance, side) on a flat position followed
\* immediately by close(P) returns realized_pnl = 0; the two commissions are
\* charged to the balance: the balance close returns is the balance given to
\* open minus the commission of the open minus the commission of the close.
C3_RoundTripPnlIsZero ==
    [][RoundTripStep =>
         /\ ret'.realized_pnl = 0
         /\ balance' = ret.balance - Fee(ret.position_size, ret.current_price)
                                   - Fee(ret.position_size, ret.current_price)]_vars

\* C3 witness: the first call opened a position at a price P # 0 and the second
\* closed it at P (realized_pnl = 0 off the floor branch means the close price
\* is the entry price)
C3_Witness ==
    /\ ncalls = 2 /\ ret.op = "close" /\ ~ret.flat
    /\ ret.current_price > 0 /\ ret.realized_pnl = 0 /\ balance > 0

\* C4 (as claimed): when open succeeds with size S2 at price P2 on a position
\* that already has the same side with size S1 and entry price P1, the
\* resulting position has size S1+S2 and entry_price (S1*P1 + S2*P2)/(S1+S2).
\* Stated for positive prices P1 and P2, where it already fails.
C4_ScaleInWeightedAverage ==
    [][(/\ ret'.op = "open" /\ ret'.ok
        /\ position.side # 0 /\ ret'.side = position.side
        /\ position.entry_price > 0 /\ ret'.current_price > 0)
       => /\ position'.size = position.size + ret'.position_size
          /\ position'.entry_price * (position.size + ret'.position_size)
               = position.size * position.entry_price
                 + ret'.position_size * ret'.current_price]_vars

\* C10: open returns failure with the balance it was given and modifies no
\* field of the position whenever position_size <= 1e-10 or
\* balance < size*price + commission(size*price).
C10_OpenRejectedLeavesAllUnchanged ==
    [][(/\ ret'.op = "open"
        /\ \/ ret'.position_size <= Epsilon
           \/ balance < Mul(ret'.position_size, ret'.current_price)
                          + Fee(ret'.position_size, ret'.current_price))
       => /\ ~ret'.ok
          /\ balance' = balance
          /\ position' = position]_vars

\* C10 witness: an open on an open position was refused for lack of balance,
\* and another was refused for its size
C10_Witness ==
    /\ ret.op = "open" /\ ~ret.ok /\ ~ret.flat
    /\ ret.position_size > Epsilon
    /\ position.side # 0 /\ position.size # ret.position_size

\* ----------------------------------------------- claims on ClientSimulation

\* The step is a tick of the order's symbol at a price that crosses its limit
Crossing(order) ==
    /\ reply'.op = "update_market_price"
    /\ reply'.symbol = order.symbol
    /\ \/ order.side = SIDE_BUY /\ reply'.price <= order.price
       \/ order.side = SIDE_SELL /\ reply'.price >= order.price

\* The step is a cancel_order call that returned the order
Canceling(order) ==
    /\ reply'.op = "cancel_order"
    /\ reply'.result # << >>
    /\ reply'.result[1].orderId = order.orderId

RECURSIVE Ascending(_)
Ascending(S) ==
    IF S = {} THEN << >>
    ELSE LET m == CHOOSE x \in S : \A y \in S : x <= y
         IN  <<m>> \o Ascending(S \ {m})

Eligible(c, symbol, price) ==
    Ascending({i \in 1..Len(c.orders) : Fillable(c.orders[i], symbol, price)})

\* The positions after the fills of the orders at the indexes `fills`, one after
\* the other
RECURSIVE AfterFills(_, _)
AfterFills(c, fills) ==
    IF fills = << >> THEN c
    ELSE LET o == c.orders[Head(fills)]
         IN  AfterFills(_update_position(c, o.symbol, o.side, o.quantity, o.price),
                        Tail(fills))

\* C6: the limit orders of one symbol that become eligible on the same
\* update_market_price call are filled in the order of their submission: the
\* trades appended, the position updates and the commission debits are those of
\* the eligible orders taken in submission order, whatever their limit prices.
C6_FillsInSubmissionOrder ==
    [][reply'.op = "update_market_price" =>
         LET fills == Eligible(client, reply'.symbol, reply'.price)
             after == AfterFills(client, fills)
             n == Len(client.trades)
         IN  /\ Len(client'.trades) = n + Len(fills)
             /\ \A k \in 1..Len(fills) :
                  /\ client'.trades[n + k].orderId = client.orders[fills[k]].orderId
                  /\ client'.trades[n + k].price = client.orders[fills[k]].price
             /\ client'.positions = after.positions
             /\ client'.balance = after.balance]_vars

\* C6 witness: two BUY limit orders of one symbol were submitted, the one with
\* the lower limit price first, a single tick (the third call) has filled both,
\* and the first trade is that of the order submitted first
C6_Witness ==
    /\ reply.op = "update_market_price" /\ ncalls = 3
    /\ Len(client.orders) = 2 /\ Len(client.trades) = 2
    /\ client.orders[1].type = ORDER_TYPE_LIMIT
    /\ client.orders[2].type = ORDER_TYPE_LIMIT
    /\ client.orders[1].status = "FILLED" /\ client.orders[2].status = "FILLED"
    /\ client.orders[1].side = SIDE_BUY /\ client.orders[2].side = SIDE_BUY
    /\ client.orders[1].price < client.orders[2].price
    /\ client.trades[1].orderId = client.orders[1].orderId

\* C7: order status transitions are one-way: an order that is FILLED or
\* CANCELED keeps its status in every later call, no order returns to NEW, and
\* no order is removed.
C7_TerminalStatusesAbsorb ==
    [][/\ Len(client'.orders) >= Len(client.orders)
       /\ \A i \in 1..Len(client.orders) :
            /\ client.orders[i].status \in {"FILLED", "CANCELED"}
                 => client'.orders[i].status = client.orders[i].status
            /\ client'.orders[i].status = "NEW"
                 => client.orders[i].status = "NEW"]_vars

\* C7 witness: cancel_order was called with the id and symbol of a FILLED order
C7_Witness ==
    /\ reply.op = "cancel_order"
    /\ \E i \in 1..Len(client.orders) :
         /\ client.orders[i].orderId = reply.order_id
         /\ client.orders[i].symbol = reply.symbol
         /\ client.orders[i].status = "FILLED"

\* C8: cancel_order(symbol, order_id) changes an order to CANCELED and returns
\* it only when an order with that id and symbol exists and is NEW; otherwise it
\* returns the empty result and leaves orders, trades, positions, balance and
\* prices unchanged.  A canceled order is never filled by a later tick.
C8_CancelOnlyNewOrders ==
    [][/\ reply'.op = "cancel_order" =>
            LET live == {i \in 1..Len(client.orders) :
                           /\ client.orders[i].orderId = reply'.order_id
                           /\ client.orders[i].symbol = reply'.symbol
                           /\ client.orders[i].status = "NEW"}
            IN  IF live = {}
                THEN reply'.result = << >> /\ client' = client
                ELSE \E i \in live :
                       /\ client' = [client EXCEPT !.orders[i].status = "CANCELED"]
                       /\ reply'.result = <<client'.orders[i]>>
       /\ \A i \in 1..Len(client.orders) :
            client.orders[i].status = "CANCELED"
              => client'.orders[i].status = "CANCELED"]_vars

\* C8 witness: a limit order was canceled and a later tick crossing its limit has
\* left it CANCELED, with no trade
C8_Witness ==
    /\ reply.op = "update_market_price"
    /\ client.trades = << >>
    /\ \E i \in 1..Len(client.orders) :
         /\ client.orders[i].status = "CANCELED"
         /\ client.orders[i].symbol = reply.symbol
         /\ client.orders[i].side = SIDE_BUY
         /\ reply.price <= client.orders[i].price

\* C9: place_market_order for a symbol that has never received a price tick
\* returns the empty result, creates no order and no trade, and leaves positions
\* and balance unchanged.
C9_MarketOrderNeedsPrice ==
    [][(/\ reply'.op = "place_market_order"
        /\ reply'.symbol \notin DOMAIN client.market_prices)
       => /\ reply'.result = << >>
          /\ client' = client]_vars

\* C9 witness: a market order was refused for a symbol without a price while
\* the other symbol has one
C9_Witness ==
    /\ reply.op = "place_market_order"
    /\ reply.result = << >>
    /\ reply.symbol \notin DOMAIN client.market_prices
    /\ DOMAIN client.market_prices # {}

\* The indexes of the trades that refer to the order
TradesOf(c, order) ==
    {k \in 1..Len(c.trades) : c.trades[k].orderId = order.orderId}

\* C11: after every call there is exactly one trade for each FILLED order,
\* carrying that order's id, symbol, side, fill price and quantity; a market
\* order is FILLED when place_market_order returns it and is never NEW; every
\* trade refers to a FILLED order; a call only appends to the trades: the trades
\* before it are kept as they were.
C11_OneTradePerFilledOrder ==
    [][/\ \A i \in 1..Len(client'.orders) :
            LET order == client'.orders[i]
            IN  /\ order.type = ORDER_TYPE_MARKET => order.status = "FILLED"
                /\ order.status = "FILLED" =>
                     /\ Cardinality(TradesOf(client', order)) = 1
                     /\ \A k \in TradesOf(client', order) :
                          /\ client'.trades[k].symbol = order.symbol
                          /\ client'.trades[k].side = order.side
                          /\ client'.trades[k].price = order.price
                          /\ client'.trades[k].quantity = order.quantity
                /\ order.status # "FILLED" => TradesOf(client', order) = {}
       /\ (reply'.op = "place_market_order" /\ reply'.result # << >>)
            => reply'.result[1].status = "FILLED"
       /\ Len(client'.trades) >= Len(client.trades)
       /\ SubSeq(client'.trades, 1, Len(client.trades)) = client.trades]_vars

\* C11 witness: a limit order was filled by a tick and a market order was
\* filled after it; there are two FILLED orders and two trades
C11_Witness ==
    /\ reply.op = "place_market_order" /\ reply.result # << >>
    /\ Len(client.orders) = 2 /\ Len(client.trades) = 2
    /\ client.orders[1].type = ORDER_TYPE_LIMIT
    /\ client.orders[1].status = "FILLED"
    /\ client.orders[2].type = ORDER_TYPE_MARKET
    /\ client.trades[1].orderId = client.orders[1].orderId
    /\ client.trades[2].orderId = client.orders[2].orderId

\* C12: place_limit_order only appends one NEW limit order, which it returns;
\* positions, balance, trades and the price cache are unchanged, also when the
\* limit price is already marketable against the latest price.  An order
\* becomes FILLED only in an update_market_price call, market orders (FILLED
\* from their creation) aside.
C12_PlaceLimitOrderOnlyAppends ==
    [][/\ reply'.op = "place_limit_order" =>
            /\ Len(reply'.result) = 1
            /\ reply'.result[1].status = "NEW"
            /\ reply'.result[1].type = ORDER_TYPE_LIMIT
            /\ client'.orders = Append(client.orders, reply'.result[1])
            /\ client'.positions = client.positions
            /\ client'.balance = client.balance
            /\ client'.trades = client.trades
            /\ client'.market_prices = client.market_prices
       /\ \A i \in 1..Len(client.orders) :
            (client.orders[i].status = "NEW" /\ client'.orders[i].status = "FILLED")
              => reply'.op = "update_market_price"]_vars

\* C12 witness: a BUY limit order was placed at a limit price not below the
\* latest price of its symbol; it is NEW and there is no trade
C12_Witness ==
    /\ reply.op = "place_limit_order"
    /\ reply.symbol \in DOMAIN client.market_prices
    /\ client.market_prices[reply.symbol] > 0
    /\ reply.result[1].side = SIDE_BUY
    /\ client.market_prices[reply.symbol] <= reply.price
    /\ client.orders[Len(client.orders)].status = "NEW"
    /\ client.trades = << >>

\* The client's history is a position of one symbol opened from flat by the
\* first fill and fully closed by the second, opposite, fill
OpenedThenClosed(c) ==
    /\ Len(c.trades) = 2
    /\ c.trades[1].symbol = c.trades[2].symbol
    /\ c.trades[1].side # c.trades[2].side
    /\ c.trades[1].quantity = c.trades[2].quantity

\* The PnL realized by closing at trade `exit` the position opened at `entry`
RealizedPnl(entry, exit) ==
    IF entry.side = SIDE_BUY
    THEN Mul(entry.quantity, exit.price - entry.price)
    ELSE Mul(entry.quantity, entry.price - exit.price)

\* C13 (as claimed): after a position of quantity q opened by a fill at P1 is
\* fully closed by an opposite fill at P2, the balance is the initial balance
\* plus the realized PnL ((P2 - P1) * q for a long, (P1 - P2) * q for a short)
\* minus commission(P1 * q) minus commission(P2 * q).
C13_CloseRealizesPnl ==
    OpenedThenClosed(client) =>
        client.balance = initial_balance
                           + RealizedPnl(client.trades[1], client.trades[2])
                           - _calculate_commission(Mul(client.trades[1].quantity,
                                                       client.trades[1].price))
                           - _calculate_commission(Mul(client.trades[2].quantity,
                                                       client.trades[2].price))

\* C14 (as claimed): starting from a non-negative initial balance, the balance
\* of the client is >= 0 after every call.
C14_ClientBalanceNonNegative == client.balance >= 0

\* ----------------------------------------------------- claims on two threads

\* The sum of the commissions of the trades
RECURSIVE SumCommission(_)
SumCommission(trades) ==
    IF trades = << >> THEN 0
    ELSE Head(trades).commission + SumCommission(Tail(trades))

\* C15 (as claimed): when two threads concurrently execute fills for different
\* symbols on the same client, under every interleaving the final balance is
\* the initial balance minus the sum of both commissions.
C15_NoLostUpdate ==
    (\A t \in Threads : thread[t].pc = "done")
        => client.balance = initial_balance - SumCommission(client.trades)

\* ------------------------------------------------ claims on single fills

\* The signed size of the position of symbol (0 when there is none)
SizeOf(c, symbol) ==
    IF symbol \in DOMAIN c.positions THEN c.positions[symbol].size ELSE 0

\* C16 (as claimed): a fill of an order placed with reduce_only = true never
\* opens a position, never increases the absolute size of an existing position
\* and never flips its direction: after the fill |size| <= |size before| and
\* the sign of size is unchanged or zero.
C16_ReduceOnlyNeverIncreases ==
    [][(/\ reply'.op = "place_market_order"
        /\ reply'.result # << >>
        /\ reply'.result[1].reduceOnly)
       => LET before == SizeOf(client, reply'.symbol)
              after == SizeOf(client', reply'.symbol)
          IN  /\ Abs(after) <= Abs(before)
              /\ after * before >= 0]_vars

\* C17 (as claimed): no single fill takes a symbol's position directly from
\* long to short or from short to long.
C17_NoDirectFlip ==
    [][\A symbol \in DOMAIN client.positions :
         SizeOf(client, symbol) * SizeOf(client', symbol) >= 0]_vars

\* ------------------------------------------------------ claims on queries
Queries == {"get_position_risk", "get_account_info", "get_balance"}

\* C18 (as claimed): in every reachable state, including one where a fill has
\* created a position but set_leverage and set_margin_type were never called,
\* or where leverage was set to 0, get_position_risk, get_account_info and
\* get_balance return a result instead of an error.
C18_QueriesNeverRaise ==
    reply.op \in Queries => ~reply.result[1].error

\* ------------------------------------------ claims on the floor of close

\* What close computes for the balance before it floors it:
\* balance + size * current_price - commission
PreClampBalance(self, current_price, bal) ==
    bal + Mul(self.size, current_price)
        - commission(Mul(self.size, current_price))

\* C19 (as claimed): when close computes
\* balance + size * price - commission < 0, it returns the new balance 0 and
\* realized_pnl = the negative of the pre-clamp balance.
C19_FloorReportsPreClampBalance ==
    [][(/\ ret'.op = "close"
        /\ PreClampBalance(position, ret'.current_price, balance) < 0)
       => /\ balance' = 0
          /\ ret'.realized_pnl =
               0 - PreClampBalance(position, ret'.current_price, balance)]_vars

\* ------------------------------------------------- claims on the scenario

\* The position is the long of size 1 opened at 100 with the balance 10000
LongOneAtHundred ==
    /\ position.side = 1 /\ position.size = 1 /\ position.entry_price = 100
    /\ balance = Money(9899, 9500)

\* C20: with commission rate 0.0005 and balance 10000, open(Long, size 1) at
\* price 100 charges the commission 0.05 and returns the balance 9899.95 with
\* entry_price 100; update at price 110 then gives unrealized_pnl 10; close at
\* price 110 then returns realized_pnl 10 and the balance 10009.895.
C20_Scenario ==
    [][/\ (/\ ncalls = 0
           /\ ret'.op = "open" /\ ret'.current_price = 100
           /\ ret'.position_size = 1 /\ ret'.side = 1)
          => /\ ret'.ok
             /\ balance - balance' = Money(100, 0) + Money(0, 500)
             /\ balance' = Money(9899, 9500)
             /\ position'.entry_price = 100
             /\ position'.side = 1 /\ position'.size = 1
       /\ (/\ ncalls = 1 /\ ret.op = "open" /\ LongOneAtHundred
           /\ ret'.op = "update" /\ ret'.current_price = 110)
          => position'.unrealized_pnl = Money(10, 0)
       /\ (/\ ncalls = 2 /\ ret.op = "update" /\ ret.current_price = 110
           /\ LongOneAtHundred
           /\ ret'.op = "close" /\ ret'.current_price = 110)
          => /\ ret'.realized_pnl = Money(10, 0)
             /\ balance' = Money(10009, 8950)]_vars

\* C20 witness: three calls were made, the third closed at 110, after an update
\* at 110, the long of size 1 at 100 that the first call opened from the
\* balance 10000 (close was given the balance 9899.95 and realized 10)
C20_Witness ==
    /\ ncalls = 3 /\ ret.op = "close" /\ ~ret.flat
    /\ ret.current_price = 110 /\ ret.before = <<"update", 110>>
    /\ ret.balance = Money(9899, 9500)
    /\ ret.realized_pnl = Money(10, 0)

\* ------------------------------------------------------- claims on ticks

\* C21 (as claimed): each update_market_price(symbol, price) call applies one
\* Position.Update tick to the position of every symbol: its counters advance
\* by one, so the record of every position the client holds changes in the
\* call.  (The positions of ClientSimulation are dicts of size and entry_price;
\* a counter that advanced would be a change of the record.)
C21_TickUpdatesEveryPosition ==
    [][reply'.op = "update_market_price" =>
         \A symbol \in DOMAIN client.positions :
             client'.positions[symbol] # client.positions[symbol]]_vars

\* C22: after update_market_price(symbol, p) returns, no limit order of that
\* symbol that was NEW before the call and satisfies (BUY and p <= limit price)
\* or (SELL and p >= limit price) is still NEW: each of them is FILLED.
C22_EveryEligibleOrderFilled ==
    [][reply'.op = "update_market_price" =>
         \A i \in 1..Len(client.orders) :
            LET order == client.orders[i]
            IN  (/\ order.symbol = reply'.symbol
                 /\ order.type = ORDER_TYPE_LIMIT
                 /\ order.status = "NEW"
                 /\ \/ order.side = SIDE_BUY /\ reply'.price <= order.price
                    \/ order.side = SIDE_SELL /\ reply'.price >= order.price)
                => client'.orders[i].status = "FILLED"]_vars

\* C22 witness: a BUY and a SELL limit order of one symbol were resting and one
\* tick of that symbol, eligible for both, has left neither of them NEW
C22_Witness ==
    /\ reply.op = "update_market_price"
    /\ Len(client.orders) = 2
    /\ \A i \in 1..2 :
         /\ client.orders[i].type = ORDER_TYPE_LIMIT
         /\ client.orders[i].symbol = reply.symbol
         /\ client.orders[i].status = "FILLED"
    /\ client.orders[1].side = SIDE_BUY /\ client.orders[2].side = SIDE_SELL
    /\ reply.price <= client.orders[1].price
    /\ reply.price >= client.orders[2].price

\* The orders, by index, that the step from c to c2 has filled
FilledBy(c, c2) ==
    {i \in 1..Len(c.orders) :
       c.orders[i].status = "NEW" /\ c2.orders[i].status = "FILLED"}

\* The fee at the rate 0.0005 of an order executed at its own limit price
LimitFee(order) == order.quantity * order.price * RateNum

\* The sum of LimitFee over the orders of c at the indexes in S
RECURSIVE SumLimitFees(_, _)
SumLimitFees(c, S) ==
    IF S = {} THEN 0
    ELSE LET i == CHOOSE j \in S : TRUE
         IN  LimitFee(c.orders[i]) + SumLimitFees(c, S \ {i})

\* C23: a matched limit order is executed at its own limit price, not at the
\* tick price that triggered it: the balance is debited the commission of
\* limit price * quantity of each order filled, the trade records carry the
\* limit price, the quantity and that commission, and a position opened from
\* flat by the fill has the limit price as entry_price.
C23_FillAtLimitPrice ==
    [][reply'.op = "update_market_price" =>
         LET filled == FilledBy(client, client')
         IN  /\ client'.balance = client.balance - SumLimitFees(client, filled)
             /\ \A i \in filled : \A k \in TradesOf(client', client.orders[i]) :
                  /\ client'.trades[k].price = client.orders[i].price
                  /\ client'.trades[k].quantity = client.orders[i].quantity
                  /\ client'.trades[k].commission = LimitFee(client.orders[i])
             /\ \A i \in filled :
                  (Cardinality(filled) = 1 /\ SizeOf(client, reply'.symbol) = 0)
                    => /\ client'.positions[reply'.symbol].entry_price
                            = [num |-> client.orders[i].price, den |-> 1]
                       /\ Abs(SizeOf(client', reply'.symbol))
                            = client.orders[i].quantity]_vars

\* C23 witness: a BUY limit order was filled, from flat, by a tick below its
\* limit price
C23_Witness ==
    /\ reply.op = "update_market_price"
    /\ Len(client.orders) = 1 /\ Len(client.trades) = 1
    /\ client.orders[1].status = "FILLED"
    /\ client.orders[1].side = SIDE_BUY
    /\ reply.price < client.orders[1].price
    /\ reply.price > 0

\* ------------------------------------------------- claims on the counters

\* At most one of holding_time and idle_time is non-zero
CountersExclusive(self) == self.holding_time = 0 \/ self.idle_time = 0

\* C24: in every state of a ManagerPosition reachable by open, update, close
\* and reset, at most one of holding_time and idle_time is non-zero, and each
\* update call increments exactly one of them by exactly one (idle_time when
\* flat, holding_time when positioned) and leaves the other at 0.
C24_CountersExclusive ==
    [][/\ CountersExclusive(position) /\ CountersExclusive(position')
       /\ ret'.op = "update" =>
            IF position.side = 0
            THEN /\ position'.idle_time = position.idle_time + 1
                 /\ position'.holding_time = 0
            ELSE /\ position'.holding_time = position.holding_time + 1
                 /\ position'.idle_time = 0]_vars

\* C24 witness: a position was opened (holding_time 1) and then updated twice:
\* holding_time is 3 and idle_time 0
C24_Witness ==
    /\ ret.op = "update" /\ ~ret.flat /\ ncalls = 3
    /\ position.side # 0
    /\ position.holding_time = 3 /\ position.idle_time = 0

\* --------------------------------------------------- claims on get_all_orders

\* The indexes of the orders of c of symbol within the time range (an end that
\* is 0 is open)
InRange(c, symbol, start_time, end_time) ==
    {i \in 1..Len(c.orders) :
       /\ c.orders[i].symbol = symbol
       /\ start_time # 0 => c.orders[i].time >= start_time
       /\ end_time # 0 => c.orders[i].time <= end_time}

\* C25 (as claimed): get_all_orders(symbol, limit, start, end) returns, in
\* insertion order, the most recent orders of that symbol within the time
\* range, and never more than `limit` of them, for every limit >= 0 (including
\* limit = 0).
C25_AtMostLimitMostRecent ==
    reply.op = "get_all_orders" =>
        LET range == InRange(client, reply.symbol, reply.start_time,
                             reply.end_time)
            n == Len(reply.result)
        IN  /\ n <= reply.limit
            /\ n <= Cardinality(range)
            /\ \E pick \in [1..n -> range] :
                 /\ \A k \in 1..n : reply.result[k] = client.orders[pick[k]]
                 /\ \A k \in 1..n : \A m \in 1..n : k < m => pick[k] < pick[m]
                 /\ \A i \in range :
                      (\E k \in 1..n : pick[k] = i)
                        \/ (\A k \in 1..n : i < pick[k])
                        \/ n = 0

\* C26 (as claimed): a fill that reduces a position without closing or flipping
\* it (a SELL of q < size against a long, or a BUY of q < |size| against a
\* short) leaves that position's entry_price unchanged.
C26_ReduceKeepsEntryPrice ==
    [][(/\ reply'.op = "place_market_order"
        /\ reply'.result # << >>
        /\ LET before == SizeOf(client, reply'.symbol)
               order == reply'.result[1]
           IN  \/ before > 0 /\ order.side = SIDE_SELL /\ order.quantity < before
               \/ before < 0 /\ order.side = SIDE_BUY
                             /\ order.quantity < 0 - before)
       => client'.positions[reply'.symbol].entry_price
            = client.positions[reply'.symbol].entry_price]_vars

\* ------------------------------------------- claims on open followed by close

\* C27 (as claimed): for both Long and Short, an open at price P1 > 0 from flat
\* followed by a close at price P2 > 0 changes the balance by exactly the
\* realized PnL that close reports minus the two commissions:
\* final balance - balance before open
\*   = realized_pnl - commission(S * P1) - commission(S * P2).
C27_BalanceDeltaIsNetPnl ==
    [][(/\ ret.op = "open" /\ ret.ok /\ ret.flat /\ ret.current_price > 0
        /\ ret'.op = "close" /\ ret'.current_price > 0)
       => balance' - ret.balance
            = ret'.realized_pnl - Fee(ret.position_size, ret.current_price)
                                - Fee(ret.position_size, ret'.current_price)]_vars

\* C28: for every balance >= 0, price >= 0 and position size >= 0, close never
\* takes the balance-floor branch: balance + size * price - commission is >= 0
\* and is the balance close returns; a close that floors the balance was given
\* a negative balance or a negative price.
C28_FloorUnreachable ==
    [][ret'.op = "close" =>
         LET pre == PreClampBalance(position, ret'.current_price, balance)
         IN  /\ (balance >= 0 /\ ret'.current_price >= 0 /\ position.size >= 0)
                  => pre >= 0 /\ balance' = pre
             /\ pre < 0 => balance < 0 \/ ret'.current_price < 0]_vars

\* C28 witness: a long opened with the whole balance at a price > 0 was closed
\* at the price 0: close was given the balance 0, computed 0 + 0 - 0 and
\* returned it, with the loss as realized_pnl
C28_Witness ==
    /\ ret.op = "close" /\ ~ret.flat /\ ncalls = 2
    /\ ret.current_price = 0 /\ ret.realized_pnl < 0
    /\ balance = 0

\* ------------------------------------------------- claims on CacheFeatureFile

\* C29 (as claimed): for every interleaving of a set(value, key) with concurrent
\* get(key) calls, no get deletes a file that set is writing, and once set has
\* returned a get(key) that begins afterwards returns the value that was set.
C29_SetThenGet ==
    /\ cache.setter \in {"lock", "dump", "unlock"} => cache.linked
    /\ \A r \in Readers :
         (cache.reader[r].pc = "done" /\ cache.reader[r].after)
           => cache.reader[r].result = "new"

\* --------------------------------------------------- claims on final_action

\* C30 (as claimed): final_action returns the action sell when position is Short
\* and trend is Down, and wait when position is Short and trend is not Down; it
\* returns unknown only for a position outside {Empty, Long, Short}.
C30_ShortMirrorsLong ==
    decision.op = "final_action" =>
        /\ decision.position = Position_Short =>
             decision.result.action =
                 IF decision.trend = Trend_Down THEN "sell" ELSE "wait"
        /\ decision.result.action = "unknown" =>
             decision.position \notin Position

====
